---- MODULE Spec2Model ----
(***************************************************************************)
(* A model of the Hint class of src/packages/hint/hint.ts: the ordered     *)
(* list of hint items, the options record, the callback registry, the      *)
(* rendered hint markers and the scroll/resize auto refresh.               *)
(*                                                                         *)
(* A lower-case definition named after a method (addHint, setHints,        *)
(* destroy, ...) is the effect of the method's body on the instance. The   *)
(* capitalised action of the same name (AddHint, SetHints, Destroy, ...)   *)
(* is one call of the method: it draws the arguments, applies the body and *)
(* records the call in the observation variables lastOp, argStr, argInt,   *)
(* argList, ret and threw; of the arguments it records those a property   *)
(* reads.                                                                  *)
(***************************************************************************)
EXTENDS Integers, Sequences, FiniteSets

(* ------------------------------ bounds --------------------------------- *)

\* The longest hint list, and the number of page elements that can carry a marker.
MaxHints == 2

\* The number of debounced closures enableHintAutoRefresh may create in a run.
MaxHandlers == 2

\* The largest hintAutoRefreshInterval, in ticks of the model's clock.
MaxInterval == 2

\* The reAlignHints passes counted within one burst of events.
MaxPasses == 2

(* ------------------------------ values --------------------------------- *)

\* JavaScript's undefined, where a string-valued result is expected.
Undefined == "undefined"

\* The hint items (HintItem records) a caller may pass.
Items == {"hintA", "hintB"}

\* Every list of at most MaxHints items.
HintLists == UNION {[1..n -> Items] : n \in 0..MaxHints}

\* Values a caller may hand to a registrar: two functions and three values
\* that are not functions.
Functions == {"f1", "f2"}
NonFunctions == {"null", "42", "{}"}
CallbackValues == Functions \cup NonFunctions

\* The slots of the callback registry.
CallbackNames == {"hintsAdded", "hintClick", "hintClose"}

\* The keys of HintOptions the model follows.
OptionKeys == {"isActive", "hintAutoRefreshInterval", "hintPosition"}

\* The values each option may be set to.
Intervals == -1..MaxInterval
OptionValues(k) ==
    CASE k = "isActive" -> BOOLEAN
      [] k = "hintAutoRefreshInterval" -> Intervals
      [] OTHER -> {"top-middle", "bottom-right"}

\* The record with no key: {}.
EmptyRecord == [k \in {} |-> TRUE]

\* P's keys override those of base, the other keys of base are kept.
Override(base, P) ==
    [k \in (DOMAIN base) \cup (DOMAIN P) |-> IF k \in DOMAIN P THEN P[k] ELSE base[k]]

\* The records of S, and each of them with a value for key k.
WithKey(S, k) ==
    S \cup {Override(P, [x \in {k} |-> v]) : P \in S, v \in OptionValues(k)}

\* A Partial<HintOptions>: a record over some of the keys.
PartialOptions ==
    WithKey(WithKey(WithKey({EmptyRecord}, "isActive"), "hintAutoRefreshInterval"),
            "hintPosition")

\* The identities of the debounced closures, and "no closure stored".
Handlers == 1..MaxHandlers
NoHandler == 0

\* The window events the auto refresh listens to.
Events == {"scroll", "resize"}

\* The step ids of the page elements a marker can be attached to.
StepIds == 0..(MaxHints - 1)

\* The step ids a caller may probe, one below and two above the valid ones.
ProbeIds == -1..(MaxHints + 1)

\* The step ids a caller may name for a marker: the valid ones and one past them.
TargetIds == 0..MaxHints

\* No pending timeout.
NoTimer == -1

(* ----------------------------- variables ------------------------------- *)

VARIABLES
    _hints,                     \* Hint._hints
    _options,                   \* Hint._options: [defined, rec]
    callbacks,                  \* Hint.callbacks
    _hintsAutoRefreshFunction,  \* Hint._hintsAutoRefreshFunction
    constructed,                \* "no", "yes" or "failed" (the constructor threw)
    cloned,                     \* the instance the last clone() made: [made, options]
    created,                    \* how many debounced closures exist
    delay,                      \* the timeout each debounced closure captured
    timer,                      \* the pending timeout of each debounced closure
    listeners,                  \* the window's listeners, per event
    markers,                    \* the rendered hint marker of each step id
    renderPc,                   \* where the pending render() call stands
    renderTrace,                \* what the last render() call has done so far
    lastOp, argStr, argInt, argList, argOpts, ret, threw,   \* the last call observed
    removed,                    \* the markers the last call, a destroy(), found
    addLog, logging,            \* the addHint arguments, kept while logging
    elapsed,                    \* ticks since the last window event
    armed,                      \* the closures the events of this burst have called
    passes                      \* the reAlignHints passes those closures have run

hintVars == <<_hints>>
optVars == <<_options, constructed, cloned>>
cbVars == <<callbacks>>
refreshVars == <<_hintsAutoRefreshFunction, created, delay, listeners>>
clockVars == <<timer, elapsed, armed, passes>>
domVars == <<markers>>
renderVars == <<renderPc, renderTrace>>
logVars == <<addLog, logging>>
callVars == <<lastOp, argStr, argInt, argList, argOpts, ret, threw, removed>>

vars == <<_hints, _options, callbacks, _hintsAutoRefreshFunction, constructed,
          cloned, armed, created, delay, timer, listeners, markers, renderPc, renderTrace,
          lastOp, argStr, argInt, argList, argOpts, ret, threw, removed,
          addLog, logging, elapsed, passes>>

\* A page without markers.
NoMarkers == [s \in StepIds |-> "none"]

\* The record of one call: the method, its arguments and what it returned.
Observe(op, s, i, l, r) ==
    /\ removed' = NoMarkers
    /\ lastOp' = op
    /\ argStr' = s
    /\ argInt' = i
    /\ argList' = l
    /\ argOpts' = EmptyRecord
    /\ ret' = r

\* A call that returns the instance and does not throw.
Chained(op, s, i, l) == Observe(op, s, i, l, "this") /\ threw' = FALSE

(* ------------------------------ options -------------------------------- *)

\* getDefaultHintOptions(): the defaults of the keys the model follows.
getDefaultHintOptions ==
    [isActive |-> TRUE, hintAutoRefreshInterval |-> 1, hintPosition |-> "top-middle"]

\* An options field that holds a record, and one that holds undefined.
Defined(rec) == [defined |-> TRUE, rec |-> rec]
UndefinedOptions == [defined |-> FALSE, rec |-> EmptyRecord]

\* getOption(key) on an options field that holds a record with that key.
getOption(key) == _options.rec[key]

\* isActive()
isActive == getOption("isActive")

(* --------------------------- the hint list ----------------------------- *)

\* getHints()
getHints == _hints

\* getHint(stepId): the element at a zero-based index, undefined outside the list.
getHint(stepId) ==
    IF stepId \in 0..(Len(_hints) - 1) THEN _hints[stepId + 1] ELSE Undefined

\* A setHints that keeps the items already in the list.
setHints_Concat(hints) == _hints' = _hints \o hints

\* setHints(hints)
setHints(hints) == _hints' = hints

\* An addHint that puts the item first (unshift for push).
addHint_Unshift(hint) == _hints' = <<hint>> \o _hints

\* An addHint that does nothing on an inactive instance.
addHint_IfActive(hint) ==
    _hints' = IF isActive THEN Append(_hints, hint) ELSE _hints

\* addHint(hint)
addHint(hint) == _hints' = Append(_hints, hint)

(* ------------------------- the callback registry ----------------------- *)

\* isFunction(x)
isFunction(x) == x \in Functions

\* callback(callbackName)
callback(callbackName) ==
    IF isFunction(callbacks[callbackName]) THEN callbacks[callbackName] ELSE Undefined

\* An onHintClose that stores the value before it tests it.
onHintClose_AssignFirst(providedCallback) ==
    /\ callbacks' = [callbacks EXCEPT !.hintClose = providedCallback]
    /\ threw' = ~isFunction(providedCallback)

\* onHintsAdded(providedCallback)
onHintsAdded(providedCallback) ==
    IF ~isFunction(providedCallback)
    THEN threw' = TRUE /\ callbacks' = callbacks
    ELSE threw' = FALSE /\ callbacks' = [callbacks EXCEPT !.hintsAdded = providedCallback]

\* onhintsadded(providedCallback)
onhintsadded(providedCallback) == onHintsAdded(providedCallback)

\* onHintClick(providedCallback)
onHintClick(providedCallback) ==
    IF ~isFunction(providedCallback)
    THEN threw' = TRUE /\ callbacks' = callbacks
    ELSE threw' = FALSE /\ callbacks' = [callbacks EXCEPT !.hintClick = providedCallback]

\* onhintclick(providedCallback)
onhintclick(providedCallback) == onHintClick(providedCallback)

\* onHintClose(providedCallback)
onHintClose(providedCallback) ==
    IF isFunction(providedCallback)
    THEN threw' = FALSE /\ callbacks' = [callbacks EXCEPT !.hintClose = providedCallback]
    ELSE threw' = TRUE /\ callbacks' = callbacks

\* onhintclose(providedCallback)
onhintclose(providedCallback) == onHintClose(providedCallback)

(* --------------------------- initial state ----------------------------- *)

\* The fields of an instance before its constructor has run a statement.
Fields ==
    /\ _hints = <<>>
    /\ callbacks = [n \in CallbackNames |-> Undefined]
    /\ _hintsAutoRefreshFunction = NoHandler
    /\ created = 0
    /\ delay = [h \in Handlers |-> 0]
    /\ timer = [h \in Handlers |-> NoTimer]
    /\ listeners = [e \in Events |-> {}]
    /\ markers = NoMarkers
    /\ removed = NoMarkers
    /\ renderPc = "idle"
    /\ renderTrace = <<>>
    /\ argStr = Undefined
    /\ argInt = 0
    /\ argList = <<>>
    /\ argOpts = EmptyRecord
    /\ ret = "this"
    /\ threw = FALSE
    /\ addLog = <<>>
    /\ elapsed = 0
    /\ armed = {}
    /\ passes = 0
    /\ cloned = [made |-> "no", options |-> UndefinedOptions]

\* The instance new Hint() returns: no options given, so the defaults.
Init ==
    /\ Fields
    /\ _options = Defined(getDefaultHintOptions)
    /\ constructed = "yes"
    /\ lastOp = "new"
    /\ logging = TRUE

(* ---------------------- calls on the hint list ------------------------- *)

AddHint ==
    \E hint \in Items :
        /\ Len(_hints) < MaxHints
        /\ addHint(hint)
        /\ addLog' = IF logging THEN Append(addLog, hint) ELSE addLog
        /\ UNCHANGED logging
        /\ Chained("addHint", hint, 0, <<>>)
        /\ UNCHANGED <<optVars, cbVars, refreshVars, clockVars, domVars, renderVars>>

SetHints ==
    \E hints \in HintLists :
        /\ setHints(hints)
        /\ logging' = FALSE
        /\ UNCHANGED addLog
        /\ Chained("setHints", Undefined, 0, hints)
        /\ UNCHANGED <<optVars, cbVars, refreshVars, clockVars, domVars, renderVars>>

GetHint ==
    \E stepId \in ProbeIds :
        /\ Observe("getHint", Undefined, stepId, <<>>, getHint(stepId))
        /\ threw' = FALSE
        /\ UNCHANGED <<hintVars, logVars, optVars, cbVars, refreshVars, clockVars,
                       domVars, renderVars>>

NextHints == AddHint \/ SetHints \/ GetHint

SpecHints == Init /\ [][NextHints]_vars

(* ------------------------ calls of the registrars ---------------------- *)

\* What a registrar returns: the instance, or nothing when it threw.
Returned == IF threw' THEN Undefined ELSE "this"

RegistrarFrame ==
    UNCHANGED <<hintVars, logVars, optVars, refreshVars, clockVars, domVars, renderVars>>

OnHintsAdded ==
    \E cb \in CallbackValues :
        /\ onHintsAdded(cb)
        /\ Observe("onHintsAdded", cb, 0, <<>>, Returned)
        /\ RegistrarFrame

Onhintsadded ==
    \E cb \in CallbackValues :
        /\ onhintsadded(cb)
        /\ Observe("onhintsadded", cb, 0, <<>>, Undefined)
        /\ RegistrarFrame

OnHintClick ==
    \E cb \in CallbackValues :
        /\ onHintClick(cb)
        /\ Observe("onHintClick", cb, 0, <<>>, Returned)
        /\ RegistrarFrame

Onhintclick ==
    \E cb \in CallbackValues :
        /\ onhintclick(cb)
        /\ Observe("onhintclick", cb, 0, <<>>, Undefined)
        /\ RegistrarFrame

OnHintClose ==
    \E cb \in CallbackValues :
        /\ onHintClose(cb)
        /\ Observe("onHintClose", cb, 0, <<>>, Returned)
        /\ RegistrarFrame

Onhintclose ==
    \E cb \in CallbackValues :
        /\ onhintclose(cb)
        /\ Observe("onhintclose", cb, 0, <<>>, Undefined)
        /\ RegistrarFrame

NextCallbacks ==
    \/ OnHintsAdded \/ Onhintsadded
    \/ OnHintClick \/ Onhintclick
    \/ OnHintClose \/ Onhintclose

SpecCallbacks == Init /\ [][NextCallbacks]_vars

\* The registry slot each registrar writes.
SlotOf(op) ==
    CASE op \in {"onHintsAdded", "onhintsadded"} -> "hintsAdded"
      [] op \in {"onHintClick", "onhintclick"} -> "hintClick"
      [] OTHER -> "hintClose"

RegistrarOps ==
    {"onHintsAdded", "onhintsadded", "onHintClick", "onhintclick",
     "onHintClose", "onhintclose"}

(* ------------------------------ options calls ------------------------- *)

\* setOption(key, value): the options with one key overridden.
setOption(key, value) ==
    _options' = Defined(Override(_options.rec, [k \in {key} |-> value]))

\* One setOption call on a key of keys.
SetOption(keys) ==
    \E key \in keys :
        \E value \in OptionValues(key) :
            /\ _options.defined
            /\ setOption(key, value)
            /\ UNCHANGED <<constructed, cloned>>
            /\ Chained("setOption", key, 0, <<>>)
            /\ UNCHANGED <<hintVars, logVars, cbVars, refreshVars, clockVars, domVars,
                           renderVars>>

(* ------------------------- rendering and markers ----------------------- *)

\* fetchHintItems(hint): the list becomes the items found for the page.
fetchHintItems(found) == _hints' = found

\* renderHints(hint), completed: every item of the list has a marker, and a
\* marker that was there keeps its state.
renderHints ==
    markers' = [s \in StepIds |->
                  IF s < Len(_hints) /\ markers[s] = "none" THEN "shown" ELSE markers[s]]

\* Whether a collaborator that is handed the instance acts: it does on an
\* active instance; on an inactive one it may act or do nothing.
Acts == IF isActive THEN {TRUE} ELSE BOOLEAN

\* hideHint(hint, stepId): the marker, if rendered, is hidden.
hideHintOf(stepId, acts) ==
    markers' = [s \in StepIds |->
                  IF acts /\ s = stepId /\ markers[s] # "none" THEN "hidden" ELSE markers[s]]

\* hideHints(hint): every rendered marker is hidden.
hideHintsOf(acts) ==
    markers' = [s \in StepIds |->
                  IF acts /\ markers[s] # "none" THEN "hidden" ELSE markers[s]]

\* showHint(stepId): the marker, if rendered, is shown.
showHintOf(stepId) ==
    markers' = [s \in StepIds |->
                  IF s = stepId /\ markers[s] # "none" THEN "shown" ELSE markers[s]]

\* showHints(hint): every rendered marker is shown.
showHintsOf(acts) ==
    markers' = [s \in StepIds |->
                  IF acts /\ markers[s] # "none" THEN "shown" ELSE markers[s]]

\* removeHint(stepId): the marker is removed from the page.
removeHintOf(stepId) ==
    markers' = [s \in StepIds |-> IF s = stepId THEN "none" ELSE markers[s]]

\* removeHints(hint): every marker is removed from the page.
removeHintsOf == markers' = NoMarkers

\* A render() without the isActive test.
render_NoGuard ==
    \E found \in HintLists :
        /\ fetchHintItems(found)
        /\ renderPc' = "awaitRenderHints"
        /\ renderTrace' = <<"fetchHintItems", "renderHints">>
        /\ ret' = "pending"

\* render(), up to its await: an inactive instance resolves at once; an active
\* one fetches the items, starts renderHints and waits for it.
render ==
    IF ~isActive
    THEN /\ renderPc' = "resolved"
         /\ renderTrace' = <<"resolve">>
         /\ ret' = "this"
         /\ UNCHANGED _hints
    ELSE \E found \in HintLists :
            /\ fetchHintItems(found)
            /\ renderPc' = "awaitRenderHints"
            /\ renderTrace' = <<"fetchHintItems", "renderHints">>
            /\ ret' = "pending"

\* addHints()
addHints == render

\* render(), from its await on: renderHints has completed, the call resolves
\* to the instance.
renderResume ==
    /\ renderPc = "awaitRenderHints"
    /\ renderHints
    /\ renderPc' = "resolved"
    /\ renderTrace' = renderTrace \o <<"renderHintsDone", "resolve">>
    /\ ret' = "this"

\* The observation of a render() or addHints() call; what it returns is set
\* by the body.
RenderCalled(op) ==
    /\ lastOp' = op
    /\ argStr' = Undefined
    /\ argInt' = 0
    /\ argList' = <<>>
    /\ argOpts' = EmptyRecord
    /\ removed' = NoMarkers
    /\ threw' = FALSE
    /\ logging' = FALSE
    /\ UNCHANGED addLog
    /\ UNCHANGED <<optVars, cbVars, refreshVars, clockVars, domVars>>

Render ==
    /\ renderPc # "awaitRenderHints"
    /\ render
    /\ RenderCalled("render")

AddHints ==
    /\ renderPc # "awaitRenderHints"
    /\ addHints
    /\ RenderCalled("addHints")

RenderResume ==
    /\ renderResume
    /\ lastOp' = "(render resumed)"
    /\ UNCHANGED <<argStr, argInt, argList, argOpts, threw, removed>>
    /\ UNCHANGED <<hintVars, logVars, optVars, cbVars, refreshVars, clockVars>>

\* A destroy() that empties the list as well.
destroy_ClearsHints == removeHintsOf /\ _hints' = <<>>

\* destroy()
destroy == removeHintsOf /\ UNCHANGED _hints

\* removeHints()
removeHints == destroy

\* The rest of the state a call on the markers leaves alone.
MarkerFrame ==
    UNCHANGED <<logVars, optVars, cbVars, refreshVars, clockVars, renderVars>>

\* The observation of a destroy() or removeHints() call, with the markers it found.
Destroyed(op) ==
    /\ lastOp' = op
    /\ argStr' = Undefined
    /\ argInt' = 0
    /\ argList' = <<>>
    /\ argOpts' = EmptyRecord
    /\ ret' = "this"
    /\ threw' = FALSE
    /\ removed' = markers

Destroy ==
    /\ destroy
    /\ Destroyed("destroy")
    /\ MarkerFrame

RemoveHints ==
    /\ removeHints
    /\ Destroyed("removeHints")
    /\ MarkerFrame

\* hideHint(stepId)
HideHint ==
    \E stepId \in TargetIds, acts \in Acts :
        /\ hideHintOf(stepId, acts)
        /\ Chained("hideHint", Undefined, 0, <<>>)
        /\ UNCHANGED hintVars
        /\ MarkerFrame

\* hideHints()
HideHints ==
    \E acts \in Acts :
        /\ hideHintsOf(acts)
        /\ Chained("hideHints", Undefined, 0, <<>>)
        /\ UNCHANGED hintVars
        /\ MarkerFrame

\* showHint(stepId)
ShowHint ==
    \E stepId \in TargetIds :
        /\ showHintOf(stepId)
        /\ Chained("showHint", Undefined, 0, <<>>)
        /\ UNCHANGED hintVars
        /\ MarkerFrame

\* showHints()
ShowHints ==
    \E acts \in Acts :
        /\ showHintsOf(acts)
        /\ Chained("showHints", Undefined, 0, <<>>)
        /\ UNCHANGED hintVars
        /\ MarkerFrame

\* removeHint(stepId)
RemoveHint ==
    \E stepId \in TargetIds :
        /\ removeHintOf(stepId)
        /\ Chained("removeHint", Undefined, 0, <<>>)
        /\ UNCHANGED hintVars
        /\ MarkerFrame

\* showHintDialog(stepId): the dialog of a hint is no part of the list, of the
\* markers or of the listeners.
ShowHintDialog ==
    \E stepId \in TargetIds :
        /\ Chained("showHintDialog", Undefined, 0, <<>>)
        /\ UNCHANGED <<hintVars, domVars>>
        /\ MarkerFrame

(* ----------------------------- auto refresh ---------------------------- *)

\* DOMEvent.on(window, type, listener, true): the listener is registered; a
\* listener registered twice for one event is registered once.
DOMEventOn(registered, type, listener) ==
    [registered EXCEPT ![type] = @ \cup {listener}]

\* DOMEvent.off(window, type, listener, true)
DOMEventOff(registered, type, listener) ==
    [registered EXCEPT ![type] = @ \ {listener}]

\* enableHintAutoRefresh(): debounce(...) makes a new closure that captures
\* the interval.
enableHintAutoRefresh ==
    LET hintAutoRefreshInterval == getOption("hintAutoRefreshInterval")
        fn == created + 1
    IN  IF hintAutoRefreshInterval >= 0
        THEN /\ created < MaxHandlers
             /\ created' = fn
             /\ delay' = [delay EXCEPT ![fn] = hintAutoRefreshInterval]
             /\ _hintsAutoRefreshFunction' = fn
             /\ listeners' = DOMEventOn(DOMEventOn(listeners, "scroll", fn), "resize", fn)
        ELSE UNCHANGED refreshVars

\* disableHintAutoRefresh()
disableHintAutoRefresh ==
    IF _hintsAutoRefreshFunction # NoHandler
    THEN /\ listeners' = DOMEventOn(
                            DOMEventOff(listeners, "scroll", _hintsAutoRefreshFunction),
                            "resize", _hintsAutoRefreshFunction)
         /\ _hintsAutoRefreshFunction' = NoHandler
         /\ UNCHANGED <<created, delay>>
    ELSE UNCHANGED refreshVars

\* A call that switches the auto refresh ends the burst that is counted.
Switched ==
    /\ armed' = {}
    /\ passes' = 0
    /\ UNCHANGED <<timer, elapsed>>
    /\ UNCHANGED <<hintVars, logVars, optVars, cbVars, domVars, renderVars>>

EnableHintAutoRefresh ==
    /\ enableHintAutoRefresh
    /\ Chained("enableHintAutoRefresh", Undefined, 0, <<>>)
    /\ Switched

DisableHintAutoRefresh ==
    /\ disableHintAutoRefresh
    /\ Chained("disableHintAutoRefresh", Undefined, 0, <<>>)
    /\ Switched

\* A debounced closure is called: clearTimeout, then setTimeout(func, timeout).
debounced(pending, called) ==
    [h \in Handlers |-> IF h \in called THEN delay[h] ELSE pending[h]]

\* Whether a timeout is due. A due timeout runs before the clock moves on and
\* before the next event is dispatched.
Due == \E h \in Handlers : timer[h] = 0

\* The window dispatches a scroll or a resize event to its listeners. The
\* event goes on with the burst when it comes less than the interval of the
\* stored closure after the event before it; otherwise it starts a burst.
WindowEvent ==
    \E type \in Events :
        LET called == listeners[type]
            enabled == _hintsAutoRefreshFunction # NoHandler
            goesOn == /\ enabled
                      /\ armed # {}
                      /\ elapsed < delay[_hintsAutoRefreshFunction]
        IN  /\ ~Due
            /\ timer' = debounced(timer, called)
            /\ elapsed' = 0
            /\ armed' = IF goesOn THEN armed \cup called
                        ELSE IF enabled THEN called ELSE {}
            /\ passes' = IF goesOn THEN passes ELSE 0
            /\ Observe(type, Undefined, 0, <<>>, Undefined)
            /\ threw' = FALSE
            /\ UNCHANGED <<hintVars, logVars, optVars, cbVars, refreshVars, domVars,
                           renderVars>>

\* One tick of the clock: every pending timeout comes one tick closer.
Tick ==
    /\ ~Due
    /\ elapsed < MaxInterval \/ \E h \in Handlers : timer[h] # NoTimer
    /\ timer' = [h \in Handlers |-> IF timer[h] > 0 THEN timer[h] - 1 ELSE timer[h]]
    /\ elapsed' = IF elapsed < MaxInterval THEN elapsed + 1 ELSE elapsed
    /\ UNCHANGED <<armed, passes>>
    /\ Observe("(tick)", Undefined, 0, <<>>, Undefined)
    /\ threw' = FALSE
    /\ UNCHANGED <<hintVars, logVars, optVars, cbVars, refreshVars, domVars, renderVars>>

\* The timeout of a debounced closure runs: one reAlignHints(hint) pass.
TimeoutRuns ==
    \E h \in Handlers :
        /\ timer[h] = 0
        /\ timer' = [timer EXCEPT ![h] = NoTimer]
        /\ passes' = IF h \in armed /\ passes < MaxPasses THEN passes + 1 ELSE passes
        /\ UNCHANGED <<elapsed, armed>>
        /\ Observe("(reAlignHints)", Undefined, h, <<>>, Undefined)
        /\ threw' = FALSE
        /\ UNCHANGED <<hintVars, logVars, optVars, cbVars, refreshVars, domVars,
                       renderVars>>

NextAutoRefresh ==
    \/ SetOption({"hintAutoRefreshInterval"})
    \/ EnableHintAutoRefresh
    \/ DisableHintAutoRefresh
    \/ WindowEvent
    \/ Tick
    \/ TimeoutRuns

SpecAutoRefresh == Init /\ [][NextAutoRefresh]_vars

(* ------------------------ construction and clone ----------------------- *)

\* setOptions(options, partialOptions): what the call may come to. On an
\* options record the keys of partialOptions override it. On undefined there
\* is no record to override: writing a key into it throws, and a merge into a
\* fresh record yields partialOptions alone; with no key to write, undefined
\* itself may come back.
setOptions(options, partialOptions) ==
    IF options.defined
    THEN {[threw |-> FALSE, value |-> Defined(Override(options.rec, partialOptions))]}
    ELSE {[threw |-> FALSE, value |-> Defined(partialOptions)]} \cup
         (IF DOMAIN partialOptions = {}
          THEN {[threw |-> FALSE, value |-> options]}
          ELSE {[threw |-> TRUE, value |-> options]})

\* The constructor: with options given, setOptions(this._options, options) on
\* the field that has not been assigned yet; without, the defaults.
constructor(given, options, field) ==
    IF given THEN setOptions(field, options)
    ELSE {[threw |-> FALSE, value |-> Defined(getDefaultHintOptions)]}

\* An instance whose constructor has not run: _options holds undefined.
InitOptions ==
    /\ Fields
    /\ _options = UndefinedOptions
    /\ constructed = "no"
    /\ lastOp = "(allocated)"
    /\ logging = FALSE

\* The observation of a call that takes options.
ObserveOptions(op, given, options) ==
    /\ lastOp' = op
    /\ argStr' = IF given THEN "options" ELSE Undefined
    /\ argInt' = 0
    /\ argList' = <<>>
    /\ argOpts' = options
    /\ removed' = NoMarkers
    /\ UNCHANGED <<hintVars, logVars, cbVars, refreshVars, clockVars, domVars, renderVars>>

\* new Hint(elementOrSelector, options?)
New ==
    \E given \in BOOLEAN :
        \E options \in IF given THEN PartialOptions ELSE {EmptyRecord} :
            \E outcome \in constructor(given, options, _options) :
                /\ constructed = "no"
                /\ _options' = outcome.value
                /\ threw' = outcome.threw
                /\ constructed' = IF outcome.threw THEN "failed" ELSE "yes"
                /\ ret' = IF outcome.threw THEN Undefined ELSE "this"
                /\ UNCHANGED cloned
                /\ ObserveOptions("new", given, options)

\* setOptions(partialOptions)
SetOptions ==
    \E partialOptions \in PartialOptions :
        \E outcome \in setOptions(_options, partialOptions) :
            /\ constructed = "yes"
            /\ _options' = outcome.value
            /\ threw' = outcome.threw
            /\ ret' = IF outcome.threw THEN Undefined ELSE "this"
            /\ UNCHANGED <<constructed, cloned>>
            /\ ObserveOptions("setOptions", TRUE, partialOptions)

\* clone(): new Hint(this._targetElement, this._options). Options that hold
\* undefined count as not given.
Clone ==
    \E outcome \in constructor(_options.defined, _options.rec, UndefinedOptions) :
        /\ constructed = "yes"
        /\ cloned' = [made |-> IF outcome.threw THEN "failed" ELSE "yes",
                      options |-> outcome.value]
        /\ threw' = outcome.threw
        /\ ret' = IF outcome.threw THEN Undefined ELSE "clone"
        /\ UNCHANGED <<_options, constructed>>
        /\ ObserveOptions("clone", FALSE, EmptyRecord)

NextOptions == New \/ SetOptions \/ Clone

SpecOptions == InitOptions /\ [][NextOptions]_vars


(* -------------------- the life of the rendered hints ------------------- *)

\* An instance whose list is not logged: render() fetches the list anew.
InitLifecycle ==
    /\ Fields
    /\ _options = Defined(getDefaultHintOptions)
    /\ constructed = "yes"
    /\ lastOp = "new"
    /\ logging = FALSE

NextLifecycle ==
    \/ SetOption({"isActive"})
    \/ AddHint \/ SetHints
    \/ Render \/ AddHints \/ RenderResume
    \/ Destroy \/ RemoveHints \/ RemoveHint
    \/ HideHint \/ HideHints \/ ShowHint \/ ShowHints \/ ShowHintDialog
    \/ EnableHintAutoRefresh

SpecLifecycle == InitLifecycle /\ [][NextLifecycle]_vars

(* ------------------------------- claims -------------------------------- *)

\* C1: a registrar called with a value that is not a function throws and
\* leaves callback(name) of every slot as it was; called with a function it
\* does not throw and callback(name) of its slot is that function afterwards.
C1_RegistrarValidates ==
    [][lastOp' \in RegistrarOps =>
        IF isFunction(argStr')
        THEN /\ ~threw'
             /\ \A n \in CallbackNames :
                   n = SlotOf(lastOp') => callback(n)' = argStr'
        ELSE /\ threw'
             /\ \A n \in CallbackNames : callback(n)' = callback(n)]_vars

\* A failed registration through a deprecated alias while a function is registered.
C1_Witness ==
    /\ lastOp = "onhintclose"
    /\ threw
    /\ argStr = "null"
    /\ callback("hintClose") = "f1"

\* C2: while the list has only been built by addHint, getHints() is the
\* arguments in call order, getHint(i) is the i-th of them, and getHint
\* outside the list is undefined and leaves the list as it is.
C2_AddHintKeepsOrder ==
    logging =>
        /\ getHints = addLog
        /\ \A i \in ProbeIds :
              getHint(i) = IF i \in 0..(Len(addLog) - 1) THEN addLog[i + 1] ELSE Undefined
        /\ lastOp = "getHint" =>
              /\ ~threw
              /\ ret = IF argInt \in 0..(Len(addLog) - 1)
                        THEN addLog[argInt + 1] ELSE Undefined

\* Two different items were added, and getHint was asked for a step past the end.
C2_Witness ==
    /\ logging
    /\ addLog = <<"hintB", "hintA">>
    /\ lastOp = "getHint"
    /\ argInt = Len(addLog)
    /\ ret = Undefined

\* The items of a list.
Range(l) == {l[i] : i \in 1..Len(l)}

\* C3: right after setHints(L), getHints() is L and getHint retrieves L's
\* items and nothing else.
C3_SetHintsReplaces ==
    lastOp = "setHints" =>
        /\ getHints = argList
        /\ \A i \in ProbeIds :
              getHint(i) = IF i \in 0..(Len(argList) - 1) THEN argList[i + 1] ELSE Undefined
        /\ \A i \in ProbeIds : getHint(i) # Undefined => getHint(i) \in Range(argList)

\* Items were added, then a list without one of them was set.
C3_Witness ==
    /\ lastOp = "setHints"
    /\ addLog = <<"hintA", "hintB">>
    /\ argList = <<"hintB">>
    /\ getHint(1) = Undefined

\* The step ids that have a marker on the page.
Rendered(m) == {s \in StepIds : m[s] # "none"}

RenderOps == {"render", "addHints"}
DestroyOps == {"destroy", "removeHints"}
ShowHideOps == {"hideHint", "hideHints", "showHint", "showHints", "showHintDialog"}

\* C4: render() and addHints() on an inactive instance resolve at once to the
\* instance, without fetchHintItems or renderHints, and leave the list, the
\* options, the registry and the markers as they were; on an active instance
\* fetchHintItems comes before renderHints, and the call resolves only when
\* renderHints has completed.
C4_RenderGuard ==
    [][/\ (lastOp' \in RenderOps /\ ~isActive) =>
            /\ renderPc' = "resolved"
            /\ renderTrace' = <<"resolve">>
            /\ ret' = "this"
            /\ ~threw'
            /\ UNCHANGED <<_hints, _options, callbacks, markers>>
       /\ (lastOp' \in RenderOps /\ isActive) =>
            /\ renderPc' = "awaitRenderHints"
            /\ renderTrace' = <<"fetchHintItems", "renderHints">>
            /\ ret' = "pending"
       /\ (renderPc = "awaitRenderHints" /\ renderPc' = "resolved") =>
            /\ renderTrace' =
                  <<"fetchHintItems", "renderHints", "renderHintsDone", "resolve">>
            /\ ret' = "this"
       /\ (renderPc' = "resolved" /\ renderTrace' # <<"resolve">>) =>
            renderTrace'[Len(renderTrace') - 1] = "renderHintsDone"]_vars

\* render() was called on an inactive instance that has two items and markers.
C4_Witness ==
    /\ lastOp = "render"
    /\ ~isActive
    /\ renderTrace = <<"resolve">>
    /\ Len(_hints) = MaxHints
    /\ Rendered(markers) = StepIds

\* C5: destroy() and removeHints() remove every rendered marker, shown or
\* hidden, and leave the list, the options and the registry as they were, so
\* that getHint returns what it returned; render() can then be called again,
\* and when it resumes every item of the list has a marker.
C5_DestroyRemovesMarkers ==
    [][/\ lastOp' \in DestroyOps =>
            /\ Rendered(markers') = {}
            /\ ~threw'
            /\ UNCHANGED <<_hints, _options, callbacks>>
            /\ \A i \in ProbeIds : getHint(i)' = getHint(i)
       /\ (lastOp \in DestroyOps /\ renderPc # "awaitRenderHints") => ENABLED Render
       /\ lastOp' = "(render resumed)" =>
            \A s \in StepIds : s < Len(_hints') => markers'[s] # "none"]_vars

\* destroy() found a shown and a hidden marker, and the list still has its items.
C5_Witness ==
    /\ lastOp = "destroy"
    /\ removed[0] = "hidden"
    /\ removed[MaxHints - 1] = "shown"
    /\ Rendered(markers) = {}
    /\ Len(_hints) = MaxHints

\* The operations C6 names.
C6Ops ==
    {"addHint", "setHints", "hideHint", "hideHints", "showHint", "showHints",
     "showHintDialog", "removeHint", "destroy", "enableHintAutoRefresh"}

\* C6 as stated: on an inactive instance each of these operations leaves the
\* list, the markers and the listeners as they were, and does not raise.
C6_InactiveIsNoOp ==
    [][(~isActive /\ lastOp' \in C6Ops) =>
            /\ ~threw'
            /\ UNCHANGED <<_hints, markers, listeners>>]_vars

\* C6, amended: on an inactive instance none of these operations raises and
\* render() is a no-op; hideHint, hideHints, showHint, showHints,
\* showHintDialog, removeHint and destroy leave the list and the listeners as
\* they were, and the first five leave the set of rendered markers as it was;
\* but addHint still appends, setHints still replaces the list, destroy still
\* removes every marker, and enableHintAutoRefresh with an interval >= 0
\* still registers a new closure for scroll and for resize.
C6_InactiveOps ==
    [][~isActive =>
        /\ lastOp' \in C6Ops \cup RenderOps \cup DestroyOps => ~threw'
        /\ lastOp' \in RenderOps => UNCHANGED <<_hints, markers, listeners>>
        /\ lastOp' \in ShowHideOps \cup DestroyOps \cup {"removeHint"} =>
              UNCHANGED <<_hints, listeners>>
        /\ lastOp' \in ShowHideOps => Rendered(markers') = Rendered(markers)
        /\ lastOp' \in DestroyOps => Rendered(markers') = {}
        /\ lastOp' = "addHint" =>
              /\ _hints' = Append(_hints, argStr')
              /\ UNCHANGED <<markers, listeners>>
        /\ lastOp' = "setHints" =>
              /\ _hints' = argList'
              /\ UNCHANGED <<markers, listeners>>
        /\ lastOp' = "enableHintAutoRefresh" =>
              /\ UNCHANGED <<_hints, markers>>
              /\ IF getOption("hintAutoRefreshInterval") >= 0
                 THEN \A e \in Events :
                        listeners'[e] = listeners[e] \cup {_hintsAutoRefreshFunction'}
                        /\ _hintsAutoRefreshFunction' \notin listeners[e]
                 ELSE UNCHANGED listeners]_vars

\* addHint was called on an inactive instance that has a marker, and appended.
C6_Witness ==
    /\ lastOp = "addHint"
    /\ ~isActive
    /\ Len(_hints) = MaxHints
    /\ markers[0] # "none"

\* C7 as stated: disableHintAutoRefresh() takes the stored closure off the
\* window's scroll and resize listeners, so that a window that had no other
\* listener has none; with no closure stored it changes nothing.
C7_DisableRemovesBoth ==
    [][lastOp' = "disableHintAutoRefresh" =>
        IF _hintsAutoRefreshFunction # NoHandler
        THEN /\ _hintsAutoRefreshFunction' = NoHandler
             /\ \A e \in Events : _hintsAutoRefreshFunction \notin listeners'[e]
        ELSE UNCHANGED refreshVars]_vars

\* C8 as stated: while a closure is stored, the events of one burst lead to
\* one reAlignHints pass, run when the interval has passed since the last
\* event of the burst and not before; and no closure that listens was made
\* with a negative interval.
C8_BurstIsOnePass ==
    /\ (_hintsAutoRefreshFunction # NoHandler /\ armed # {}) =>
          /\ passes <= 1
          /\ passes >= 1 => elapsed >= delay[_hintsAutoRefreshFunction]
          /\ (elapsed >= delay[_hintsAutoRefreshFunction] /\ ~Due) => passes = 1
    /\ \A e \in Events : \A h \in listeners[e] : delay[h] >= 0

\* C10 as stated: an event has at most one listener of the instance, and it
\* is the closure stored in _hintsAutoRefreshFunction.
C10_OnlyTheStoredListener ==
    \A e \in Events :
        /\ Cardinality(listeners[e]) <= 1
        /\ listeners[e] \subseteq {_hintsAutoRefreshFunction}

\* C9 as stated: a new instance holds the defaults with the keys of the given
\* options overridden, and a clone holds the options of the original.
C9_DefaultsOverridden ==
    /\ lastOp = "new" =>
          /\ ~threw
          /\ constructed = "yes"
          /\ _options = Defined(Override(getDefaultHintOptions, argOpts))
    /\ lastOp = "clone" =>
          /\ ~threw
          /\ cloned = [made |-> "yes", options |-> _options]

====
